---- MODULE Spec2Model ----
(***************************************************************************)
(* Symbol detection of the image-processing service                        *)
(* (src/python-services/image-processing-service/main.py).                 *)
(*                                                                         *)
(* The OpenCV primitives are the environment: an image is represented by   *)
(* what they return on it (the contour forest of findContours/RETR_TREE,   *)
(* the circles of HoughCircles with the line segments HoughLinesP finds in *)
(* each circle's region, the external contours with their fitted           *)
(* ellipses).  The detectors' own arithmetic and control flow are          *)
(* translated from the code.                                               *)
(*                                                                         *)
(* Units: a contour area is kept in half pixels (area2 = 2 x area, since   *)
(* contourArea of an integer polygon is a multiple of 0.5); confidences    *)
(* and fit qualities are fixed-point numbers in units of 1/10000; angles   *)
(* are in microdegrees.                                                    *)
(***************************************************************************)
EXTENDS Integers, Sequences, FiniteSets, TLC

VARIABLES
    promotion,          \* NumPy scalar promotion of the build: "legacy" or "nep50"
    img,                \* the uploaded image: what the primitives return on it
    hpc,                \* position of the detect_symbols handler
    pc,                 \* pc[d]: position of detector d ("idle", "loop", "done")
    idx,                \* idx[d]: index of the next candidate of detector d's loop
    out,                \* out[d]: detector d's local detected_symbols list
    horizontal_lines,   \* locals of the last classified circle
    vertical_lines,
    detected_symbols,   \* the aggregator's list
    response,           \* what the handler returned
    calls,              \* number of requests served on this image
    prev,               \* the response of the previous request
    finished,           \* the detectors in the order they completed
    logged,             \* the line the handler wrote to the log
    crop,               \* the /crop-image request: parameters, position, response
    plan                \* the /process-drainage-plan request

vars == <<promotion, img, hpc, pc, idx, out, horizontal_lines, vertical_lines,
          detected_symbols, response, calls, prev, finished, logged, crop,
          plan>>

---------------------------------------------------------------------------
(* Bounds of the model *)

MaxContours == 2
MaxCircles == 2
MaxExternal == 1
MaxLines == 5
MaxCalls == 2
FreeLines == 2
MaxDrift == 1

(* Program constants *)

MinRectArea == 500
NestedRatioTenths == 8
RectVertices == 4
BaseRectConfidence == 5000
DoubleRectConfidence == 8500
MinRadius == 15
PaddingPercent == 20
MinLines == 4
HorizontalLow == 15000000
HorizontalHigh == 165000000
VerticalLow == 75000000
VerticalHigh == 105000000
MinGridLines == 2
GridQualityDivisor == 4
GridBaseConfidence == 6000
GridQualityWeight == 3000
MaxConfidence == 9500
MinOvalArea == 300
MinEllipsePoints == 5
FitQualityLowTenths == 7
FitQualityHighTenths == 13
AspectLowTenths == 3
AspectHighTenths == 9
OvalBaseConfidence == 6500
OvalFitWeight == 2500
Uint16Modulus == 65536
One == 10000
PiE4 == 31416
PollIntervalMin == 1
PollIntervalDefault == 4
PollIntervalMax == 20
TimeoutMin == 20
TimeoutStatus == 408
JobErrorStatus == 500
ConfigErrorStatus == 500
RequestErrorStatus == 503
UnexpectedErrorStatus == 500

Detectors == {"dr", "cg", "ov"}

Min(a, b) == IF a < b THEN a ELSE b
Max(a, b) == IF a > b THEN a ELSE b
Abs(a) == IF a < 0 THEN -a ELSE a

---------------------------------------------------------------------------
(* Shape primitives *)

\* cv2.boundingRect of a point sequence: <<x, y, w, h>>, w and h counting pixels
BoundingRect(pts) ==
    LET xs == {pts[k][1] : k \in DOMAIN pts}
        ys == {pts[k][2] : k \in DOMAIN pts}
        x0 == CHOOSE v \in xs : \A u \in xs : v <= u
        x1 == CHOOSE v \in xs : \A u \in xs : v >= u
        y0 == CHOOSE v \in ys : \A u \in ys : v <= u
        y1 == CHOOSE v \in ys : \A u \in ys : v >= u
    IN  <<x0, y0, x1 - x0 + 1, y1 - y0 + 1>>

\* np.arctan2(dy, dx) * 180 / np.pi in microdegrees, for dy >= 0, over the
\* directions of the sample segments (rounded to the nearest microdegree)
ArcTanTable ==
    { <<4, 0, 0>>, <<15, 4, 14931417>>, <<11, 3, 15255119>>,
      <<4, 4, 45000000>>, <<3, 11, 74744881>>, <<4, 15, 75068583>>,
      <<0, 4, 90000000>>, <<-4, 15, 104931417>>, <<-3, 11, 105255119>>,
      <<-11, 3, 164744881>>, <<-15, 4, 165068583>>, <<-4, 0, 180000000>> }

ArcTan2Deg(dy, dx) ==
    LET t == CHOOSE e \in ArcTanTable : e[1] = dx /\ e[2] = Abs(dy)
    IN  IF dy < 0 THEN -t[3] ELSE t[3]

\* a value stored in a numpy uint16
U16(v) == v % Uint16Modulus

---------------------------------------------------------------------------
(* detect_double_rectangles *)

NoChild == 0

\* HasNested with the containment test admitting a shared edge
HasNestedTouching(tree, i) ==
    LET c == tree[i]
        r == BoundingRect(c.approx)
    IN  /\ c.child # NoChild
        /\ LET ch == tree[c.child]
               cr == BoundingRect(ch.approx)
           IN  /\ ch.area2 > 0
               /\ 10 * ch.area2 < NestedRatioTenths * c.area2
               /\ Len(ch.approx) = RectVertices
               /\ cr[1] >= r[1]
               /\ cr[2] >= r[2]
               /\ cr[1] + cr[3] <= r[1] + r[3]
               /\ cr[2] + cr[4] <= r[2] + r[4]

\* HasNested looking at every child of the contour, not only the first
HasNestedAnyChild(tree, i) ==
    LET c == tree[i]
        r == BoundingRect(c.approx)
    IN  \E j \in DOMAIN tree :
            /\ tree[j].parent = i
            /\ LET ch == tree[j]
                   cr == BoundingRect(ch.approx)
               IN  /\ ch.area2 > 0
                   /\ 10 * ch.area2 < NestedRatioTenths * c.area2
                   /\ Len(ch.approx) = RectVertices
                   /\ cr[1] > r[1]
                   /\ cr[2] > r[2]
                   /\ cr[1] + cr[3] < r[1] + r[3]
                   /\ cr[2] + cr[4] < r[2] + r[4]

\* the has_nested flag computed for contour i of the forest
HasNested(tree, i) ==
    LET c == tree[i]
        r == BoundingRect(c.approx)
    IN  /\ c.child # NoChild
        /\ LET ch == tree[c.child]
               cr == BoundingRect(ch.approx)
           IN  /\ ch.area2 > 0
               /\ 10 * ch.area2 < NestedRatioTenths * c.area2
               /\ Len(ch.approx) = RectVertices
               /\ cr[1] > r[1]
               /\ cr[2] > r[2]
               /\ cr[1] + cr[3] < r[1] + r[3]
               /\ cr[2] + cr[4] < r[2] + r[4]

RectConfidence(has_nested) ==
    IF has_nested THEN DoubleRectConfidence ELSE BaseRectConfidence

\* DoubleRectSymbol with the box and polygon of the child
DoubleRectSymbolFromChild(tree, i, confidence) ==
    LET c == tree[tree[i].child]
        r == BoundingRect(c.approx)
    IN  [type |-> "DoubleRectangle",
         boundingBox |-> [x |-> r[1], y |-> r[2], width |-> r[3],
                          height |-> r[4], points |-> c.approx],
         confidence |-> confidence,
         area |-> tree[i].area2 \div 2]

\* the record appended for the matched parent contour i
DoubleRectSymbol(tree, i, confidence) ==
    LET c == tree[i]
        r == BoundingRect(c.approx)
    IN  [type |-> "DoubleRectangle",
         boundingBox |-> [x |-> r[1], y |-> r[2], width |-> r[3],
                          height |-> r[4], points |-> c.approx],
         confidence |-> confidence,
         area |-> c.area2 \div 2]

\* one iteration of the loop over the contours: what it appends
DoubleRectEmits(tree, i) ==
    LET c == tree[i]
    IN  IF c.area2 < 2 * MinRectArea THEN <<>>
        ELSE IF Len(c.approx) # RectVertices THEN <<>>
        ELSE IF HasNested(tree, i)
             THEN <<DoubleRectSymbol(tree, i, RectConfidence(TRUE))>>
             ELSE <<>>

---------------------------------------------------------------------------
(* detect_circles_with_grids *)

\* uint16 scalar minus / plus a Python int: int64 under the legacy promotion,
\* uint16 (wrapping) under NEP 50
MinusInt(p, a, k) == IF p = "legacy" THEN a - k ELSE U16(a - k)
PlusInt(p, a, k) == IF p = "legacy" THEN a + k ELSE U16(a + k)

\* padding = int(radius * 0.2)
Padding(radius) == (radius * PaddingPercent) \div 100

\* the region of interest <<x1, y1, x2, y2>> of a circle; shape = <<height, width>>
Roi(p, shape, c) ==
    LET padding == Padding(c.radius)
    IN  << Max(0, MinusInt(p, U16(c.center_x - c.radius), padding)),
           Max(0, MinusInt(p, U16(c.center_y - c.radius), padding)),
           Min(shape[2], PlusInt(p, U16(c.center_x + c.radius), padding)),
           Min(shape[1], PlusInt(p, U16(c.center_y + c.radius), padding)) >>

RoiEmpty(roi) == roi[3] <= roi[1] \/ roi[4] <= roi[2]

\* Angle without np.abs
AngleSigned(line) == ArcTan2Deg(line[4] - line[2], line[3] - line[1])

\* angle = np.abs(np.arctan2(dy, dx) * 180 / np.pi) of a segment <<x1, y1, x2, y2>>
Angle(line) == Abs(ArcTan2Deg(line[4] - line[2], line[3] - line[1]))

IsHorizontal(angle) == angle < HorizontalLow \/ angle > HorizontalHigh

IsVertical(angle) ==
    /\ ~IsHorizontal(angle)
    /\ VerticalLow < angle
    /\ angle < VerticalHigh

HorizontalLines(lines) == SelectSeq(lines, LAMBDA l : IsHorizontal(Angle(l)))
VerticalLines(lines) == SelectSeq(lines, LAMBDA l : IsVertical(Angle(l)))

\* whether the loop body reaches the classification of the circle's lines
Classifies(p, shape, c) ==
    /\ ~(c.radius < MinRadius)
    /\ ~RoiEmpty(Roi(p, shape, c))
    /\ ~(Len(c.lines) < MinLines)

\* IsGrid with "or" for "and"
IsGridEither(h, v) == h >= MinGridLines \/ v >= MinGridLines

\* IsGrid with each threshold one too low
IsGridLoose(h, v) == h >= MinGridLines - 1 /\ v >= MinGridLines - 1

\* len(horizontal_lines) >= 2 and len(vertical_lines) >= 2
IsGrid(h, v) == h >= MinGridLines /\ v >= MinGridLines

\* GridQuality without the cap at 1.0
GridQualityUncapped(h, v) == (h * v * One) \div GridQualityDivisor

GridQuality(h, v) == Min(One, (h * v * One) \div GridQualityDivisor)

GridConfidence(h, v) ==
    GridBaseConfidence + (GridQuality(h, v) * GridQualityWeight) \div One

\* CircleArea rounding to the nearest integer
CircleAreaRounded(radius) ==
    LET r2 == radius * radius
    IN  (2 * (3 * r2 * 10000 + r2 * 1416) + 10000) \div 20000

\* int(np.pi * radius * radius)
CircleArea(radius) ==
    LET r2 == radius * radius
    IN  3 * r2 + (r2 * 1415 + (r2 * 9265) \div 10000) \div 10000

CircleSymbol(p, c, confidence) ==
    LET bbox_x == U16(c.center_x - c.radius)
        bbox_y == U16(c.center_y - c.radius)
        bbox_size == IF p = "legacy" THEN c.radius * 2 ELSE U16(c.radius * 2)
    IN  [type |-> "CircleWithGrid",
         boundingBox |-> [x |-> bbox_x, y |-> bbox_y, width |-> bbox_size,
                          height |-> bbox_size,
                          points |-> << <<bbox_x, bbox_y>>,
                                        <<bbox_x + bbox_size, bbox_y>>,
                                        <<bbox_x + bbox_size, bbox_y + bbox_size>>,
                                        <<bbox_x, bbox_y + bbox_size>> >>],
         confidence |-> Min(MaxConfidence, confidence),
         area |-> CircleArea(c.radius)]

\* one iteration of the loop over the circles: what it appends
CircleEmits(p, shape, c) ==
    IF ~Classifies(p, shape, c) THEN <<>>
    ELSE LET h == Len(HorizontalLines(c.lines))
             v == Len(VerticalLines(c.lines))
         IN  IF IsGrid(h, v)
             THEN <<CircleSymbol(p, c, GridConfidence(h, v))>>
             ELSE <<>>

---------------------------------------------------------------------------
(* detect_ovals *)

MajorAxis(axes) == Max(axes[1], axes[2])
MinorAxis(axes) == Min(axes[1], axes[2])

\* 40 x ellipse_area, ellipse_area = pi * (major / 2) * (minor / 2)
EllipseArea40(axes) == (PiE4 * MajorAxis(axes) * MinorAxis(axes)) \div 1000

\* fit_quality = area / ellipse_area, in 1/10000
FitQuality(area2, axes) == (200000 * area2) \div EllipseArea40(axes)

\* PoorFit without the upper bound
PoorFitLowOnly(area2, axes) ==
    200000 * area2 < FitQualityLowTenths * PiE4 * MajorAxis(axes) * MinorAxis(axes)

\* fit_quality < 0.7 or fit_quality > 1.3, compared exactly
PoorFit(area2, axes) ==
    LET e == PiE4 * MajorAxis(axes) * MinorAxis(axes)
    IN  \/ 200000 * area2 < FitQualityLowTenths * e
        \/ 200000 * area2 > FitQualityHighTenths * e

\* BadAspect rejecting the two bounds as well
BadAspectStrict(axes) ==
    IF MajorAxis(axes) > 0
    THEN \/ 10 * MinorAxis(axes) <= AspectLowTenths * MajorAxis(axes)
         \/ 10 * MinorAxis(axes) >= AspectHighTenths * MajorAxis(axes)
    ELSE TRUE

\* aspect_ratio < 0.3 or aspect_ratio > 0.9, compared exactly
\* (aspect_ratio = minor / major if major > 0 else 0)
BadAspect(axes) ==
    IF MajorAxis(axes) > 0
    THEN \/ 10 * MinorAxis(axes) < AspectLowTenths * MajorAxis(axes)
         \/ 10 * MinorAxis(axes) > AspectHighTenths * MajorAxis(axes)
    ELSE 0 < AspectLowTenths

\* OvalConfidence with the base and the weight exchanged
OvalConfidenceSwapped(fit_quality) ==
    OvalFitWeight + (fit_quality * OvalBaseConfidence) \div One

\* confidence = 0.65 + (fit_quality * 0.25)
OvalConfidence(fit_quality) ==
    OvalBaseConfidence + (fit_quality * OvalFitWeight) \div One

\* OvalSymbol without the cap at 0.95
OvalSymbolUncapped(c, confidence) ==
    [type |-> "Oval",
     boundingBox |-> [x |-> c.rect[1], y |-> c.rect[2], width |-> c.rect[3],
                      height |-> c.rect[4],
                      points |-> << <<c.rect[1], c.rect[2]>>,
                                    <<c.rect[1] + c.rect[3], c.rect[2]>>,
                                    <<c.rect[1] + c.rect[3], c.rect[2] + c.rect[4]>>,
                                    <<c.rect[1], c.rect[2] + c.rect[4]>> >>],
     confidence |-> confidence,
     area |-> c.area2 \div 2]

\* OvalSymbol with the area of the fitted ellipse
OvalSymbolEllipseArea(c, confidence) ==
    [type |-> "Oval",
     boundingBox |-> [x |-> c.rect[1], y |-> c.rect[2], width |-> c.rect[3],
                      height |-> c.rect[4],
                      points |-> << <<c.rect[1], c.rect[2]>>,
                                    <<c.rect[1] + c.rect[3], c.rect[2]>>,
                                    <<c.rect[1] + c.rect[3], c.rect[2] + c.rect[4]>>,
                                    <<c.rect[1], c.rect[2] + c.rect[4]>> >>],
     confidence |-> Min(MaxConfidence, confidence),
     area |-> EllipseArea40(c.axes) \div 40]

\* the record appended for an accepted contour
OvalSymbol(c, confidence) ==
    LET x == c.rect[1]
        y == c.rect[2]
        w == c.rect[3]
        h == c.rect[4]
    IN  [type |-> "Oval",
         boundingBox |-> [x |-> x, y |-> y, width |-> w, height |-> h,
                          points |-> << <<x, y>>, <<x + w, y>>,
                                        <<x + w, y + h>>, <<x, y + h>> >>],
         confidence |-> Min(MaxConfidence, confidence),
         area |-> c.area2 \div 2]

\* cv2.fitEllipse(contour) is reached and raises
FitRaises(c) ==
    /\ ~(c.area2 < 2 * MinOvalArea)
    /\ ~(c.npoints < MinEllipsePoints)
    /\ ~c.fit_ok

\* what cv2.fitEllipse raises on a point set it cannot fit
FitError == "cv2.error"

\* CaughtInLoop with no except clause around the fit
CaughtNowhere == {}

\* the exceptions of the try block the loop swallows: except cv2.error: continue
CaughtInLoop == {"cv2.error"}

\* one iteration of the loop over the external contours: what it appends
OvalEmits(c) ==
    IF c.area2 < 2 * MinOvalArea THEN <<>>
    ELSE IF c.npoints < MinEllipsePoints THEN <<>>
    ELSE IF ~c.fit_ok THEN <<>>
    ELSE IF ~(EllipseArea40(c.axes) > 0) THEN <<>>
    ELSE IF PoorFit(c.area2, c.axes) THEN <<>>
    ELSE IF BadAspect(c.axes) THEN <<>>
    ELSE <<OvalSymbol(c, OvalConfidence(FitQuality(c.area2, c.axes)))>>

---------------------------------------------------------------------------
(* The images of the model: what the primitives return on them *)

\* img.shape[:2] = <<height, width>>
Shape == <<50, 60>>

OuterQuad == << <<5, 5>>, <<5, 44>>, <<44, 44>>, <<44, 5>> >>
MidQuad == << <<8, 8>>, <<8, 40>>, <<40, 40>>, <<40, 8>> >>
InnerQuad == << <<10, 10>>, <<10, 30>>, <<30, 30>>, <<30, 10>> >>
TouchQuad == << <<5, 10>>, <<5, 30>>, <<30, 30>>, <<30, 10>> >>
InnerTri == << <<10, 10>>, <<10, 30>>, <<30, 30>> >>
OuterPenta == << <<5, 5>>, <<5, 44>>, <<25, 48>>, <<44, 44>>, <<44, 5>> >>

\* contours of the forest, without their hierarchy entry: contourArea (in half
\* pixels) and the polygon approxPolyDP returns
CoreContourShapes ==
    { [area2 |-> 3043, approx |-> OuterQuad],
      [area2 |-> 799, approx |-> InnerQuad] }

ContourShapes ==
    CoreContourShapes \cup
    { [area2 |-> 2048, approx |-> MidQuad],
      [area2 |-> 800, approx |-> TouchQuad],
      [area2 |-> 1000, approx |-> OuterQuad],
      [area2 |-> 999, approx |-> OuterQuad],
      [area2 |-> 800, approx |-> InnerQuad],
      [area2 |-> 0, approx |-> InnerQuad],
      [area2 |-> 400, approx |-> InnerTri],
      [area2 |-> 3042, approx |-> OuterPenta] }

\* the node reached from i after n first-child links (NoChild when it ends)
RECURSIVE Walk(_, _, _)
Walk(child, i, n) ==
    IF n = 0 \/ i = NoChild THEN i ELSE Walk(child, child[i], n - 1)

\* the first-child columns hierarchy[0][i][2] of a forest of k contours
ChildMaps(k) ==
    { ch \in [1..k -> 0..k] :
        /\ \A i \in 1..k : \A n \in 1..k : Walk(ch, i, n) # i
        /\ \A i, j \in 1..k : (i # j /\ ch[i] # NoChild) => ch[i] # ch[j] }

\* the parent column hierarchy[0][i][3] of a forest of only children
ParentOf(ch, i) ==
    IF \E j \in DOMAIN ch : ch[j] = i
    THEN CHOOSE j \in DOMAIN ch : ch[j] = i
    ELSE NoChild

\* the forests findContours(RETR_TREE) can return: at most n contours
Forests(shapes, n) ==
    UNION { { [i \in 1..k |-> [area2 |-> s[i].area2, approx |-> s[i].approx,
                                child |-> ch[i], parent |-> ParentOf(ch, i)]] :
                s \in [1..k -> shapes], ch \in ChildMaps(k) } : k \in 0..n }

\* the forests of one quadrilateral with two children, either of them first
SiblingForests(shapes) ==
    { << [area2 |-> 3043, approx |-> OuterQuad, child |-> first,
          parent |-> NoChild],
         [area2 |-> a.area2, approx |-> a.approx, child |-> NoChild,
          parent |-> 1],
         [area2 |-> b.area2, approx |-> b.approx, child |-> NoChild,
          parent |-> 1] >> :
        a \in shapes, b \in shapes, first \in {2, 3} }

\* segments <<x1, y1, x2, y2>> HoughLinesP can return
Segment(dx, dy) == <<20, 20, 20 + dx, 20 + dy>>

CoreSegments == { Segment(4, 0), Segment(0, 4), Segment(4, 4) }

Segments ==
    { Segment(e[1], e[2]) : e \in ArcTanTable } \cup
    { Segment(e[1], -e[2]) : e \in ArcTanTable }

SeqsUpTo(S, n) == UNION { [1..k -> S] : k \in 0..n }

\* circles of np.around(HoughCircles(...)), without their lines
CoreCircleShapes ==
    { [center_x |-> 30, center_y |-> 25, radius |-> 15],
      [center_x |-> 50, center_y |-> 25, radius |-> 15] }

CircleShapes ==
    CoreCircleShapes \cup
    { [center_x |-> 10, center_y |-> 25, radius |-> 15],
      [center_x |-> 30, center_y |-> 25, radius |-> 20],
      [center_x |-> 17, center_y |-> 25, radius |-> 15],
      [center_x |-> 30, center_y |-> 40, radius |-> 15],
      [center_x |-> 30, center_y |-> 25, radius |-> 14] }

Circles(shapes, lineLists) ==
    { [center_x |-> g.center_x, center_y |-> g.center_y, radius |-> g.radius,
       lines |-> l] : g \in shapes, l \in lineLists }

GridLines == << Segment(4, 0), Segment(-4, 0), Segment(0, 4), Segment(0, 4) >>

\* external contours with the result of fitEllipse: contourArea (half pixels),
\* number of points, whether the fit succeeds, its axes, boundingRect
OvalContour ==
    [area2 |-> 1256, npoints |-> 8, fit_ok |-> TRUE, axes |-> <<20, 40>>,
     rect |-> <<10, 15, 41, 21>>]

CoreExternal ==
    { OvalContour,
      [area2 |-> 1600, npoints |-> 8, fit_ok |-> TRUE, axes |-> <<40, 20>>,
       rect |-> <<10, 15, 41, 21>>],
      [area2 |-> 1412, npoints |-> 8, fit_ok |-> TRUE, axes |-> <<30, 30>>,
       rect |-> <<15, 10, 31, 31>>] }

External ==
    CoreExternal \cup
    { [area2 |-> 1256, npoints |-> 6, fit_ok |-> FALSE, axes |-> <<0, 0>>,
       rect |-> <<10, 15, 41, 21>>],
      [area2 |-> 599, npoints |-> 8, fit_ok |-> TRUE, axes |-> <<20, 40>>,
       rect |-> <<10, 15, 41, 21>>],
      [area2 |-> 600, npoints |-> 4, fit_ok |-> TRUE, axes |-> <<20, 40>>,
       rect |-> <<10, 15, 41, 21>>],
      [area2 |-> 1700, npoints |-> 8, fit_ok |-> TRUE, axes |-> <<40, 20>>,
       rect |-> <<10, 15, 41, 21>>],
      [area2 |-> 754, npoints |-> 8, fit_ok |-> TRUE, axes |-> <<40, 12>>,
       rect |-> <<10, 15, 41, 13>>],
      [area2 |-> 2262, npoints |-> 8, fit_ok |-> TRUE, axes |-> <<40, 36>>,
       rect |-> <<10, 5, 41, 37>>],
      [area2 |-> 800, npoints |-> 8, fit_ok |-> TRUE, axes |-> <<0, 40>>,
       rect |-> <<10, 15, 41, 1>>],
      [area2 |-> 879, npoints |-> 8, fit_ok |-> TRUE, axes |-> <<40, 20>>,
       rect |-> <<10, 15, 41, 21>>],
      [area2 |-> 880, npoints |-> 8, fit_ok |-> TRUE, axes |-> <<40, 20>>,
       rect |-> <<10, 15, 41, 21>>],
      [area2 |-> 1633, npoints |-> 8, fit_ok |-> TRUE, axes |-> <<40, 20>>,
       rect |-> <<10, 15, 41, 21>>],
      [area2 |-> 1634, npoints |-> 8, fit_ok |-> TRUE, axes |-> <<40, 20>>,
       rect |-> <<10, 15, 41, 21>>],
      [area2 |-> 600, npoints |-> 8, fit_ok |-> TRUE, axes |-> <<30, 15>>,
       rect |-> <<10, 15, 31, 16>>],
      [area2 |-> 599, npoints |-> 8, fit_ok |-> TRUE, axes |-> <<30, 15>>,
       rect |-> <<10, 15, 31, 16>>] }

Image(tree, circles, contours) ==
    [decodes |-> TRUE, shape |-> Shape, tree |-> tree, circles |-> circles,
     contours |-> contours]

\* bytes cv2.imdecode returns None on
Undecodable ==
    [decodes |-> FALSE, shape |-> <<0, 0>>, tree |-> <<>>, circles |-> <<>>,
     contours |-> <<>>]

---------------------------------------------------------------------------
(* The handler detect_symbols and the three detectors it calls *)

NoResponse == [status |-> 0]

\* the candidates detector d loops over
Candidates(d) ==
    CASE d = "dr" -> img.tree
      [] d = "cg" -> img.circles
      [] d = "ov" -> img.contours

\* what detector d appends in the iteration on candidate i
Emits(d, i) ==
    CASE d = "dr" -> DoubleRectEmits(img.tree, i)
      [] d = "cg" -> CircleEmits(promotion, img.shape, img.circles[i])
      [] d = "ov" -> OvalEmits(img.contours[i])

\* Accumulate on one list shared by the three detectors
AccumulateShared(o, d, symbols) == [e \in DOMAIN o |-> o[e] \o symbols]

\* detected_symbols.append(...) on detector d's own list
Accumulate(o, d, symbols) == [o EXCEPT ![d] = o[d] \o symbols]

\* FreshList keeping the list of the previous call
FreshListStale(o, d) == o

\* detected_symbols = [] at the head of detector d
FreshList(o, d) == [o EXCEPT ![d] = <<>>]

\* Extend putting the new symbols in front
ExtendFront(list, symbols) == symbols \o list

\* Extend assigning the new symbols in place of the list
ExtendReplace(list, symbols) == symbols

\* detected_symbols.extend(...) of the aggregator
Extend(list, symbols) == list \o symbols

\* except Exception: raise HTTPException(status_code=500, detail=...)
ErrorResponse == [status |-> 500, detail |-> "Error detecting symbols"]

NoLog == [level |-> "none"]

\* logger.error(f"Error detecting symbols: ...")
ErrorLog == [level |-> "error"]

\* LogLine with the counts of the circles and the ovals exchanged
LogLineSwapped(list, double_rects, circle_grids, ovals) ==
    [level |-> "info", total |-> Len(list), rectangles |-> Len(double_rects),
     circles |-> Len(ovals), ovals |-> Len(circle_grids)]

\* logger.info(f"Detected {n} symbols (rectangles: .., circles with grids: ..,
\* ovals: ..)")
LogLine(list, double_rects, circle_grids, ovals) ==
    [level |-> "info", total |-> Len(list), rectangles |-> Len(double_rects),
     circles |-> Len(circle_grids), ovals |-> Len(ovals)]

\* JSONResponse(content={"symbols": detected_symbols, "count": len(...)})
Content(list) == [status |-> 200, symbols |-> list, count |-> Len(list)]

\* DecodeRaises without the test of the decoded image
DecodeRaisesNever(i) == FALSE

\* image_from_bytes raises: cv2.imdecode returned None (or raised on an empty
\* buffer)
DecodeRaises(i) == ~i.decodes

\* HeadGuard without the test of detect_circles_with_grids
HeadGuardRectsOnly(d) == d = "dr"

\* the detectors that return the empty list at once when the primitive found
\* nothing (hierarchy is None, circles is None)
HeadGuard(d) == d \in {"dr", "cg"}

\* the head of detector d raises: np.around(circles) on None
HeadRaises(d) == d = "cg" /\ Len(Candidates(d)) = 0 /\ ~HeadGuard(d)

\* the iteration of detector d on candidate i raises out of the detector
Escapes(d, i) ==
    /\ d = "ov"
    /\ FitRaises(img.contours[i])
    /\ FitError \notin CaughtInLoop

\* image_bytes = await file.read(); img = image_from_bytes(image_bytes)
Decode ==
    /\ hpc = "received"
    /\ IF DecodeRaises(img)
       THEN /\ hpc' = "failed"
            /\ response' = ErrorResponse
            /\ logged' = ErrorLog
            /\ UNCHANGED detected_symbols
       ELSE /\ hpc' = "decoded"
            /\ detected_symbols' = <<>>
            /\ UNCHANGED <<response, logged>>
    /\ UNCHANGED <<crop, plan>>
    /\ UNCHANGED <<promotion, img, pc, idx, out, horizontal_lines,
                   vertical_lines, calls, prev, finished>>

\* the head of detector d, up to its loop (an empty result of the primitive
\* returns the empty list at once)
CallDetector(d, at) ==
    /\ hpc = at
    /\ pc[d] = "idle"
    /\ idx' = [idx EXCEPT ![d] = 1]
    /\ out' = FreshList(out, d)
    /\ IF HeadRaises(d)
       THEN /\ pc' = [pc EXCEPT ![d] = "raised"]
            /\ hpc' = "failed"
            /\ response' = ErrorResponse
            /\ logged' = ErrorLog
            /\ UNCHANGED finished
       ELSE /\ pc' = [pc EXCEPT ![d] = IF Len(Candidates(d)) = 0
                                       THEN "done" ELSE "loop"]
            /\ finished' = IF Len(Candidates(d)) = 0
                           THEN Append(finished, d) ELSE finished
            /\ UNCHANGED <<hpc, response, logged>>
    /\ UNCHANGED <<crop, plan>>
    /\ UNCHANGED <<promotion, img, horizontal_lines, vertical_lines,
                   detected_symbols, calls, prev>>

\* one iteration of the loop of detector d
Iterate(d) ==
    /\ pc[d] = "loop"
    /\ IF Escapes(d, idx[d])
       THEN /\ pc' = [pc EXCEPT ![d] = "raised"]
            /\ hpc' = "failed"
            /\ response' = ErrorResponse
            /\ logged' = ErrorLog
            /\ UNCHANGED <<idx, out, horizontal_lines, vertical_lines, finished>>
       ELSE /\ out' = Accumulate(out, d, Emits(d, idx[d]))
            /\ idx' = [idx EXCEPT ![d] = idx[d] + 1]
            /\ pc' = [pc EXCEPT ![d] = IF idx[d] = Len(Candidates(d))
                                       THEN "done" ELSE "loop"]
            /\ IF d = "cg" /\ Classifies(promotion, img.shape, img.circles[idx[d]])
               THEN /\ horizontal_lines' = HorizontalLines(img.circles[idx[d]].lines)
                    /\ vertical_lines' = VerticalLines(img.circles[idx[d]].lines)
               ELSE UNCHANGED <<horizontal_lines, vertical_lines>>
            /\ finished' = IF idx[d] = Len(Candidates(d))
                           THEN Append(finished, d) ELSE finished
            /\ UNCHANGED <<hpc, response, logged>>
    /\ UNCHANGED <<crop, plan>>
    /\ UNCHANGED <<promotion, img, detected_symbols, calls, prev>>

\* detector d returns and the aggregator extends its list
ReturnDetector(d, at, next) ==
    /\ hpc = at
    /\ pc[d] = "done"
    /\ detected_symbols' = Extend(detected_symbols, out[d])
    /\ hpc' = next
    /\ UNCHANGED <<crop, plan>>
    /\ UNCHANGED <<promotion, img, pc, idx, out, horizontal_lines,
                   vertical_lines, response, calls, prev, finished, logged>>

CallRects == CallDetector("dr", "decoded")
IterateRects == Iterate("dr")
ReturnRects == ReturnDetector("dr", "decoded", "rects_done")

CallCircles == CallDetector("cg", "rects_done")
IterateCircles == Iterate("cg")
ReturnCircles == ReturnDetector("cg", "rects_done", "circles_done")

CallOvals == CallDetector("ov", "circles_done")
IterateOvals == Iterate("ov")
ReturnOvals == ReturnDetector("ov", "circles_done", "ovals_done")

\* logger.info(...); return JSONResponse(content={"symbols": ..., "count": ...})
Respond ==
    /\ hpc = "ovals_done"
    /\ logged' = LogLine(detected_symbols, out["dr"], out["cg"], out["ov"])
    /\ response' = Content(detected_symbols)
    /\ hpc' = "responded"
    /\ UNCHANGED <<crop, plan>>
    /\ UNCHANGED <<promotion, img, pc, idx, out, horizontal_lines,
                   vertical_lines, detected_symbols, calls, prev, finished>>

Next ==
    \/ Decode
    \/ CallRects
    \/ IterateRects
    \/ ReturnRects
    \/ CallCircles
    \/ IterateCircles
    \/ ReturnCircles
    \/ CallOvals
    \/ IterateOvals
    \/ ReturnOvals
    \/ Respond

\* no /crop-image and no /process-drainage-plan request
NoCrop == [pc |-> "none"]
NoPlan == [pc |-> "none"]

IdleDetection ==
    /\ hpc = "received"
    /\ pc = [d \in Detectors |-> "idle"]
    /\ idx = [d \in Detectors |-> 1]
    /\ out = [d \in Detectors |-> <<>>]
    /\ horizontal_lines = <<>>
    /\ vertical_lines = <<>>
    /\ detected_symbols = <<>>
    /\ response = NoResponse
    /\ calls = 1
    /\ prev = NoResponse
    /\ finished = <<>>
    /\ logged = NoLog

InitRequest ==
    /\ crop = NoCrop
    /\ plan = NoPlan
    /\ IdleDetection

Builds == {"legacy", "nep50"}

\* every image over the core samples
Init ==
    /\ promotion \in Builds
    /\ img \in {Undecodable} \cup
               { Image(t, c, e) :
                   t \in Forests(CoreContourShapes, MaxContours),
                   c \in SeqsUpTo(Circles(CoreCircleShapes, {GridLines}),
                                  MaxCircles),
                   e \in SeqsUpTo(CoreExternal, MaxExternal) }
    /\ InitRequest

Spec == Init /\ [][Next]_vars

\* a fixed image part, where a specification varies the others
NestedPair ==
    << [area2 |-> 3043, approx |-> OuterQuad, child |-> 2, parent |-> NoChild],
       [area2 |-> 799, approx |-> InnerQuad, child |-> NoChild, parent |-> 1] >>

GridCircle ==
    [center_x |-> 30, center_y |-> 25, radius |-> 15, lines |-> GridLines]

\* the forests over all the contour samples
InitRects ==
    /\ promotion \in Builds
    /\ img \in { Image(t, <<GridCircle>>, <<OvalContour>>) :
                   t \in Forests(ContourShapes, MaxContours) }
    /\ InitRequest

SpecRects == InitRects /\ [][Next]_vars

\* the circles whose geometry or whose line list varies, followed by up to
\* MaxCircles - 1 other circles
VariedCircles ==
    Circles(CircleShapes, {GridLines, <<>>}) \cup
    Circles(CoreCircleShapes, SeqsUpTo(CoreSegments, MaxLines))

InitCircles ==
    /\ promotion \in Builds
    /\ img \in { Image(NestedPair, <<c>> \o after, <<OvalContour>>) :
                   c \in VariedCircles,
                   after \in SeqsUpTo(Circles(CoreCircleShapes, {GridLines}),
                                      MaxCircles - 1) }
    /\ InitRequest

SpecCircles == InitCircles /\ [][Next]_vars

\* one circle whose first FreeLines segments range over all the directions
InitLines ==
    /\ promotion \in Builds
    /\ img \in { Image(NestedPair,
                       << [GridCircle EXCEPT !.lines = free \o GridLines] >>,
                       <<OvalContour>>) :
                   free \in [1..FreeLines -> Segments] }
    /\ InitRequest

SpecLines == InitLines /\ [][Next]_vars

\* the external contours over all the samples
InitOvals ==
    /\ promotion \in Builds
    /\ img \in { Image(NestedPair, <<GridCircle>>, e) :
                   e \in SeqsUpTo(External, MaxExternal + 1) \ {<<>>} }
    /\ InitRequest

SpecOvals == InitOvals /\ [][Next]_vars

\* one quadrilateral with two children over all the contour samples
InitSiblings ==
    /\ promotion \in Builds
    /\ img \in { Image(t, <<GridCircle>>, <<OvalContour>>) :
                   t \in SiblingForests(ContourShapes) }
    /\ InitRequest

SpecSiblings == InitSiblings /\ [][Next]_vars

\* images on which the three detectors all have candidates, or some have none
InitShared ==
    /\ promotion \in Builds
    /\ img \in {Undecodable} \cup
               { Image(t, c, e) :
                   t \in {<<>>, NestedPair},
                   c \in SeqsUpTo(Circles(CoreCircleShapes, {GridLines}),
                                  MaxCircles),
                   e \in SeqsUpTo(CoreExternal, MaxExternal) }
    /\ InitRequest

---------------------------------------------------------------------------
(* The same image served again *)

Replay ==
    /\ hpc \in {"responded", "failed"}
    /\ calls < MaxCalls
    /\ calls' = calls + 1
    /\ prev' = response
    /\ response' = NoResponse
    /\ hpc' = "received"
    /\ pc' = [d \in Detectors |-> "idle"]
    /\ finished' = <<>>
    /\ logged' = NoLog
    /\ UNCHANGED <<crop, plan>>
    /\ UNCHANGED <<promotion, img, idx, out, horizontal_lines, vertical_lines,
                   detected_symbols>>

NextTwice ==
    \/ Next
    \/ Replay

SpecTwice == InitShared /\ [][NextTwice]_vars

---------------------------------------------------------------------------
(* The three detectors as concurrent tasks on the same buffer, merged in the
   fixed type order *)

ForkRects == CallDetector("dr", "decoded")
ForkCircles == CallDetector("cg", "decoded")
ForkOvals == CallDetector("ov", "decoded")

Join ==
    /\ hpc = "decoded"
    /\ \A d \in Detectors : pc[d] = "done"
    /\ detected_symbols' =
           Extend(Extend(Extend(detected_symbols, out["dr"]), out["cg"]), out["ov"])
    /\ hpc' = "ovals_done"
    /\ UNCHANGED <<crop, plan>>
    /\ UNCHANGED <<promotion, img, pc, idx, out, horizontal_lines,
                   vertical_lines, response, calls, prev, finished, logged>>

NextPar ==
    \/ Decode
    \/ ForkRects
    \/ ForkCircles
    \/ ForkOvals
    \/ IterateRects
    \/ IterateCircles
    \/ IterateOvals
    \/ Join
    \/ Respond

SpecPar == InitShared /\ [][NextPar]_vars

---------------------------------------------------------------------------
(* The handler crop_image *)

\* the length of the Python slice [a:b] of an axis of n pixels
SliceLen(a, b, n) ==
    LET norm(v) == IF v < 0 THEN Max(0, v + n) ELSE Min(v, n)
    IN  Max(0, norm(b) - norm(a))

\* x < 0 or y < 0 or x + width > img_width or y + height > img_height
OutOfBounds(c, shape) ==
    \/ c.x < 0
    \/ c.y < 0
    \/ c.x + c.width > shape[2]
    \/ c.y + c.height > shape[1]

\* what the try block of crop_image raises
DecodeError == [kind |-> "ValueError", status |-> 0]
BoundsError == [kind |-> "HTTPException", status |-> 400,
                detail |-> "Crop parameters out of bounds"]
EncodeError == [kind |-> "cv2.error", status |-> 0]

\* except Exception as e: logger.error(...); raise HTTPException(status_code=500,
\* detail=f"Error cropping image: {str(e)}"), for every exception e of the try
\* block, an HTTPException included
CropErrorResponse(e) ==
    [status |-> 500, detail |-> "Error cropping image", cause |-> e.kind]

CropFails(e) ==
    /\ crop' = [crop EXCEPT !.pc = "failed", !.response = CropErrorResponse(e)]
    /\ logged' = ErrorLog

\* image_bytes = await file.read(); img = image_from_bytes(image_bytes)
CropDecode ==
    /\ crop.pc = "received"
    /\ IF DecodeRaises(img)
       THEN CropFails(DecodeError)
       ELSE /\ crop' = [crop EXCEPT !.pc = "decoded"]
            /\ UNCHANGED logged
    /\ UNCHANGED <<promotion, img, hpc, pc, idx, out, horizontal_lines,
                   vertical_lines, detected_symbols, response, calls, prev,
                   finished, plan>>

\* the validation of the crop parameters
CropValidate ==
    /\ crop.pc = "decoded"
    /\ IF OutOfBounds(crop, img.shape)
       THEN CropFails(BoundsError)
       ELSE /\ crop' = [crop EXCEPT !.pc = "validated"]
            /\ UNCHANGED logged
    /\ UNCHANGED <<promotion, img, hpc, pc, idx, out, horizontal_lines,
                   vertical_lines, detected_symbols, response, calls, prev,
                   finished, plan>>

\* cropped = img[y:y+height, x:x+width]; image_to_base64(cropped); return.
\* cv2.imencode of an array with no pixel raises or not, with the build
CropEncode ==
    /\ crop.pc = "validated"
    /\ LET rows == SliceLen(crop.y, crop.y + crop.height, img.shape[1])
           cols == SliceLen(crop.x, crop.x + crop.width, img.shape[2])
       IN  \E raises \in {FALSE, rows = 0 \/ cols = 0} :
               IF raises
               THEN CropFails(EncodeError)
               ELSE /\ crop' = [crop EXCEPT
                                   !.pc = "responded",
                                   !.response = [status |-> 200,
                                                 croppedImage |-> <<rows, cols>>,
                                                 width |-> crop.width,
                                                 height |-> crop.height]]
                    /\ UNCHANGED logged
    /\ UNCHANGED <<promotion, img, hpc, pc, idx, out, horizontal_lines,
                   vertical_lines, detected_symbols, response, calls, prev,
                   finished, plan>>

NextCrop ==
    \/ CropDecode
    \/ CropValidate
    \/ CropEncode

\* the crop requests: boxes inside the 60 x 50 image, on its edges and outside
InitCrop ==
    /\ promotion \in Builds
    /\ img \in {Undecodable, Image(<<>>, <<>>, <<>>)}
    /\ crop \in [pc : {"received"}, x : {-1, 0, 10, 55}, y : {-1, 0, 45},
                 width : {-5, 0, 10, 60, 61}, height : {0, 10, 50, 51},
                 response : {NoResponse}]
    /\ plan = NoPlan
    /\ IdleDetection

SpecCrop == InitCrop /\ [][NextCrop]_vars

---------------------------------------------------------------------------
(* The handler process_drainage_plan of the outerport service.  The remote
   API is the environment: each request returns a response or raises.  Times
   are in ticks of 0.5 s; the clock advances by at most MaxDrift ticks
   between consecutive statements and during a request. *)

\* what the except clauses answer with, for the exception e of the try block
\* mapped by the generic clause alone
PlanErrorStatusGeneric(e) == UnexpectedErrorStatus

\* except HTTPException: raise / except ValueError: 500 /
\* except requests.RequestException: 503 / except Exception: 500
PlanErrorStatus(e) ==
    CASE e.kind = "HTTPException" -> e.status
      [] e.kind = "ValueError" -> ConfigErrorStatus
      [] e.kind = "RequestException" -> RequestErrorStatus
      [] OTHER -> UnexpectedErrorStatus

HttpError(code) == [kind |-> "HTTPException", status |-> code]
ValueError == [kind |-> "ValueError", status |-> 0]
RequestException == [kind |-> "RequestException", status |-> 0]
KeyError == [kind |-> "KeyError", status |-> 0]

\* the request ends with the exception e
PlanRaises(pl, e) == [pl EXCEPT !.pc = "ended", !.status = PlanErrorStatus(e)]

\* TimedOut with the comparison reversed
TimedOutReversed(elapsed, timeout) == elapsed < timeout

\* if elapsed > timeout
TimedOut(elapsed, timeout) == elapsed > timeout

\* what a request to the remote API can give: a response with a status code
\* and a body, or an exception of the requests library
Outcomes(codes, bodies) ==
    { [raises |-> FALSE, code |-> c, body |-> b] : c \in codes, b \in bodies }
        \cup { [raises |-> TRUE, code |-> 0, body |-> "none"] }

detection == <<promotion, img, hpc, pc, idx, out, horizontal_lines,
               vertical_lines, detected_symbols, response, calls, prev,
               finished, logged, crop>>

\* api_key from the header, or get_api_key()
PlanStart ==
    /\ plan.pc = "start"
    /\ plan' = IF plan.has_key
               THEN [plan EXCEPT !.pc = "upload"]
               ELSE PlanRaises(plan, ValueError)
    /\ UNCHANGED detection

\* step 1: requests.post(.../components); start_time = time.time()
PlanUpload ==
    /\ plan.pc = "upload"
    /\ \E r \in Outcomes({200, 401}, {"ids", "malformed"}) :
           LET sent == [plan EXCEPT !.uploads = plan.uploads + 1]
           IN  plan' =
                   IF r.raises THEN PlanRaises(sent, RequestException)
                   ELSE IF r.code # 200
                   THEN PlanRaises([sent EXCEPT !.bad = r.code], HttpError(r.code))
                   ELSE IF r.body = "malformed" THEN PlanRaises(sent, KeyError)
                   ELSE [sent EXCEPT !.pc = "check", !.now = 0]
    /\ UNCHANGED detection

\* the head of the loop: elapsed = time.time() - start_time; the timeout test
PlanCheck ==
    /\ plan.pc = "check"
    /\ \E d \in 0..MaxDrift :
           LET elapsed == plan.now + d
               at == [plan EXCEPT !.now = elapsed, !.elapsed = elapsed,
                                  !.checks = plan.checks + 1]
           IN  plan' = IF TimedOut(elapsed, plan.timeout)
                       THEN PlanRaises(at, HttpError(TimeoutStatus))
                       ELSE [at EXCEPT !.pc = "poll"]
    /\ UNCHANGED detection

\* requests.get(.../job-statuses/{id}) and the branch on its status
PlanPoll ==
    /\ plan.pc = "poll"
    /\ \E r \in Outcomes({200, 404}, {"pending", "done", "error", "malformed"}) :
       \E d \in 0..MaxDrift :
           LET sent == [plan EXCEPT !.polls = plan.polls + 1, !.now = plan.now + d]
           IN  plan' =
                   IF r.raises THEN PlanRaises(sent, RequestException)
                   ELSE IF r.code # 200
                   THEN PlanRaises([sent EXCEPT !.bad = r.code], HttpError(r.code))
                   ELSE IF r.body = "malformed" THEN PlanRaises(sent, KeyError)
                   ELSE IF r.body = "done"
                   THEN [sent EXCEPT !.pc = "fetch", !.last = "done"]
                   ELSE IF r.body = "error"
                   THEN PlanRaises([sent EXCEPT !.last = "error"],
                                   HttpError(JobErrorStatus))
                   ELSE [sent EXCEPT !.pc = "sleep", !.last = "pending"]
    /\ UNCHANGED detection

\* time.sleep(poll_interval)
PlanSleep ==
    /\ plan.pc = "sleep"
    /\ \E d \in 0..MaxDrift :
           plan' = [plan EXCEPT !.pc = "check",
                                !.now = plan.now + plan.poll_interval + d]
    /\ UNCHANGED detection

\* step 3: requests.get(.../components/{id}); return JSONResponse(annotations)
PlanFetch ==
    /\ plan.pc = "fetch"
    /\ \E r \in Outcomes({200, 502}, {"annotations", "malformed"}) :
           LET sent == [plan EXCEPT !.fetched = plan.fetched + 1]
           IN  plan' =
                   IF r.raises THEN PlanRaises(sent, RequestException)
                   ELSE IF r.code # 200
                   THEN PlanRaises([sent EXCEPT !.bad = r.code], HttpError(r.code))
                   ELSE IF r.body = "malformed" THEN PlanRaises(sent, ValueError)
                   ELSE [sent EXCEPT !.pc = "ended", !.status = 200]
    /\ UNCHANGED detection

NextPlan ==
    \/ PlanStart
    \/ PlanUpload
    \/ PlanCheck
    \/ PlanPoll
    \/ PlanSleep
    \/ PlanFetch

\* the requests: poll_interval in [0.5, 10] s, timeout from 10 s
InitPlan ==
    /\ promotion = "legacy"
    /\ img = Undecodable
    /\ crop = NoCrop
    /\ IdleDetection
    /\ plan \in [pc : {"start"}, has_key : BOOLEAN,
                 poll_interval : {PollIntervalMin, PollIntervalDefault,
                                  PollIntervalMax},
                 timeout : {TimeoutMin, TimeoutMin + 3},
                 now : {0}, elapsed : {0}, uploads : {0}, checks : {0},
                 polls : {0}, fetched : {0}, last : {"none"}, bad : {0},
                 status : {0}]

SpecPlan == InitPlan /\ [][NextPlan]_vars

\* the handler runs to its end: every request it makes returns or raises
\* (requests' timeouts), and time.sleep returns
SpecPlanFair == SpecPlan /\ WF_vars(NextPlan)

---------------------------------------------------------------------------
(* Properties *)

\* what detector d returns on the image: its iterations in order
RECURSIVE EmitsUpTo(_, _)
EmitsUpTo(d, n) == IF n = 0 THEN <<>> ELSE EmitsUpTo(d, n - 1) \o Emits(d, n)

DetectorResult(d) == EmitsUpTo(d, Len(Candidates(d)))

\* the number of candidates detector d has gone through
Processed(d) == IF pc[d] = "idle" THEN 0 ELSE idx[d] - 1

Range(s) == {s[k] : k \in DOMAIN s}

\* every symbol a detector holds, at any moment
Emitted == UNION {Range(out[d]) : d \in Detectors}

\* C1: every emitted symbol has a confidence in [0.0, 0.95], a DoubleRectangle
\* exactly 0.85; none has 1.0 or a negative confidence.
C1_ConfidenceRange ==
    \A s \in Emitted \cup Range(detected_symbols) :
        /\ 0 <= s.confidence
        /\ s.confidence <= 9500
        /\ s.confidence # 10000
        /\ s.type = "DoubleRectangle" => s.confidence = 8500

C1_Witness ==
    /\ hpc = "responded"
    /\ \E s \in Range(response.symbols) :
           s.type = "DoubleRectangle" /\ s.confidence = 8500
    /\ \E s \in Range(response.symbols) :
           s.type = "CircleWithGrid" /\ s.confidence = 9000
    /\ \E s \in Range(response.symbols) :
           s.type = "Oval" /\ s.confidence = 9500

\* C2: every emitted symbol's bounding box has positive width and height and
\* lies inside the image: x >= 0, y >= 0, x + width <= W, y + height <= H.
C2_BoxInsideImage ==
    \A s \in Emitted :
        LET b == s.boundingBox
        IN  /\ b.width > 0
            /\ b.height > 0
            /\ b.x >= 0
            /\ b.y >= 0
            /\ b.x + b.width <= img.shape[2]
            /\ b.y + b.height <= img.shape[1]

Overlap(a, b) ==
    /\ a.x < b.x + b.width
    /\ b.x < a.x + a.width
    /\ a.y < b.y + b.height
    /\ b.y < a.y + a.height

\* C3: the returned list is the DoubleRectangle results, then the
\* CircleWithGrid results, then the Oval results, each in its detector's
\* order, nothing removed, merged or reordered.
C3_Concatenation ==
    hpc = "responded" =>
        /\ response.status = 200
        /\ \A d \in Detectors : out[d] = DetectorResult(d)
        /\ response.symbols = out["dr"] \o out["cg"] \o out["ov"]

C3_Witness ==
    /\ hpc = "responded"
    /\ \A d \in Detectors : Len(out[d]) >= 1
    /\ \E a \in Range(out["dr"]) : \E b \in Range(out["ov"]) :
           Overlap(a.boundingBox, b.boundingBox)
    /\ Len(response.symbols) = Len(out["dr"]) + Len(out["cg"]) + Len(out["ov"])

\* C4: with the detectors run in any order or interleaved on the same buffer
\* and merged in the fixed type order, the list is that of the sequential run.
C4_OrderIndependent ==
    hpc = "responded" =>
        response.symbols =
            DetectorResult("dr") \o DetectorResult("cg") \o DetectorResult("ov")

C4_Witness ==
    /\ hpc = "responded"
    /\ finished = <<"ov", "cg", "dr">>
    /\ \A d \in Detectors : Len(out[d]) >= 1

\* C5: serving the same buffer again yields the same output: same symbols,
\* same order, same field values.
C5_SameOutputTwice ==
    (calls >= 2 /\ hpc \in {"responded", "failed"}) => response = prev

C5_Witness ==
    /\ calls = 2
    /\ hpc = "responded"
    /\ Len(response.symbols) >= 3
    /\ response = prev

\* the match condition of the double-rectangle detector, as the claim states it
C6Match(tree, i) ==
    LET c == tree[i]
        p == BoundingRect(c.approx)
    IN  /\ c.area2 >= 2 * 500
        /\ Len(c.approx) = 4
        /\ c.child # NoChild
        /\ LET ch == tree[c.child]
               q == BoundingRect(ch.approx)
           IN  /\ ch.area2 > 0
               /\ 10 * ch.area2 < 8 * c.area2
               /\ Len(ch.approx) = 4
               /\ q[1] > p[1]
               /\ q[2] > p[2]
               /\ q[1] + q[3] < p[1] + p[3]
               /\ q[2] + q[4] < p[2] + p[4]

\* C6: a DoubleRectangle is emitted for a contour if and only if the contour
\* has area >= 500, four vertices and a first child of area > 0 and < 0.8 x
\* the parent's, with four vertices and a box strictly inside the parent's.
C6_EmitsIffNested ==
    /\ Len(out["dr"]) =
           Cardinality({i \in 1..Processed("dr") : C6Match(img.tree, i)})
    /\ \A s \in Range(out["dr"]) : s.type = "DoubleRectangle"

C6_Witness ==
    /\ pc["dr"] = "done"
    /\ Len(out["dr"]) = 1
    /\ \E i \in DOMAIN img.tree :
           /\ img.tree[i].area2 >= 1000
           /\ Len(img.tree[i].approx) = 4
           /\ img.tree[i].child = NoChild

\* the processed contours that match, in order
MatchedUpTo(tree, n) ==
    SelectSeq([i \in 1..n |-> i], LAMBDA i : C6Match(tree, i))

\* C7: an emitted DoubleRectangle has the box and the 4-point polygon of the
\* parent quadrilateral, never the child's, and the parent's area truncated.
C7_FromParent ==
    LET src == MatchedUpTo(img.tree, Processed("dr"))
    IN  \A k \in 1..Len(out["dr"]) :
            k <= Len(src) =>
                LET s == out["dr"][k]
                    c == img.tree[src[k]]
                    r == BoundingRect(c.approx)
                    q == BoundingRect(img.tree[c.child].approx)
                IN  /\ s.boundingBox.x = r[1]
                    /\ s.boundingBox.y = r[2]
                    /\ s.boundingBox.width = r[3]
                    /\ s.boundingBox.height = r[4]
                    /\ s.boundingBox.points = c.approx
                    /\ Len(s.boundingBox.points) = 4
                    /\ <<s.boundingBox.x, s.boundingBox.y, s.boundingBox.width,
                         s.boundingBox.height>> # q
                    /\ 2 * s.area <= c.area2
                    /\ c.area2 < 2 * (s.area + 1)

C7_Witness ==
    /\ pc["dr"] = "done"
    /\ Len(out["dr"]) = 1
    /\ out["dr"][1].boundingBox.points = OuterQuad
    /\ out["dr"][1].area = 1521
    /\ \E i \in DOMAIN img.tree : img.tree[i].area2 = 3043 /\ C6Match(img.tree, i)

\* the classification of the claim: theta = |atan2(dy, dx)| in degrees
C9Theta(l) ==
    LET a == ArcTan2Deg(l[4] - l[2], l[3] - l[1])
    IN  IF a < 0 THEN -a ELSE a

C9Horizontal(l) == C9Theta(l) < 15000000 \/ C9Theta(l) > 165000000
C9Vertical(l) == 75000000 < C9Theta(l) /\ C9Theta(l) < 105000000

\* the condition of the claim for a circle to be grid-bearing
C8Grid(c) ==
    /\ Len(c.lines) >= 4
    /\ Len(SelectSeq(c.lines, C9Horizontal)) >= 2
    /\ Len(SelectSeq(c.lines, C9Vertical)) >= 2

\* C8: an iteration on a circle emits a symbol only if the transform returned
\* at least 4 segments, at least 2 of them horizontal and at least 2
\* vertical; otherwise it emits nothing and the loop goes on to the next circle.
C8_GridOnly ==
    [][ (pc["cg"] = "loop" /\ idx'["cg"] = idx["cg"] + 1) =>
            LET c == img.circles[idx["cg"]]
            IN  /\ out'["cg"] # out["cg"] => C8Grid(c)
                /\ ~C8Grid(c) =>
                       /\ out'["cg"] = out["cg"]
                       /\ pc'["cg"] = IF idx["cg"] < Len(img.circles)
                                      THEN "loop" ELSE "done" ]_vars

C8_Witness ==
    /\ pc["cg"] = "loop"
    /\ idx["cg"] = 2
    /\ out["cg"] = <<>>
    /\ Len(img.circles[1].lines) >= 4
    /\ Len(horizontal_lines) >= 2
    /\ Len(vertical_lines) < 2
    /\ horizontal_lines = HorizontalLines(img.circles[1].lines)

\* C9: a segment is classified horizontal iff theta < 15 or theta > 165,
\* vertical iff 75 < theta < 105, otherwise discarded; the classes are
\* disjoint and a segment at exactly 15, 75, 105 or 165 is in neither.
C9_Classification ==
    (pc["cg"] = "done" /\ Len(img.circles) = 1 /\ Len(out["cg"]) = 1) =>
        LET lines == img.circles[1].lines
        IN  /\ horizontal_lines = SelectSeq(lines, C9Horizontal)
            /\ vertical_lines = SelectSeq(lines, C9Vertical)
            /\ Range(horizontal_lines) \cap Range(vertical_lines) = {}
            /\ \A l \in Range(lines) :
                   C9Theta(l) \in {15000000, 75000000, 105000000, 165000000} =>
                       l \notin Range(horizontal_lines) \cup Range(vertical_lines)

C9_Witness ==
    /\ pc["cg"] = "done"
    /\ Len(out["cg"]) = 1
    /\ Segment(4, -15) \in Range(vertical_lines)
    /\ Segment(11, 3) \in Range(img.circles[1].lines)
    /\ Segment(11, 3) \notin Range(horizontal_lines) \cup Range(vertical_lines)

\* the confidence of the claim, for h horizontal and v vertical lines:
\* min(0.95, 0.6 + 0.3 x min(1.0, (h x v) / 4.0))
C10Confidence(h, v) ==
    LET q == (h * v * 10000) \div 4
        g == IF q < 10000 THEN q ELSE 10000
        f == 6000 + (3 * g) \div 10
    IN  IF f < 9500 THEN f ELSE 9500

\* C10: an emitted CircleWithGrid with h horizontal and v vertical lines has
\* confidence min(0.95, 0.6 + 0.3 x min(1.0, (h x v) / 4.0)).
C10_GridConfidence ==
    [][ Len(out'["cg"]) = Len(out["cg"]) + 1 =>
            LET s == out'["cg"][Len(out'["cg"])]
                c == img.circles[idx["cg"]]
            IN  /\ s.type = "CircleWithGrid"
                /\ horizontal_lines' = SelectSeq(c.lines, C9Horizontal)
                /\ vertical_lines' = SelectSeq(c.lines, C9Vertical)
                /\ s.confidence = C10Confidence(Len(horizontal_lines'),
                                                Len(vertical_lines')) ]_vars

C10_Witness ==
    /\ pc["cg"] = "done"
    /\ Len(out["cg"]) >= 1
    /\ Len(horizontal_lines) * Len(vertical_lines) > 4
    /\ Len(img.circles) = 1
    /\ out["cg"][1].confidence = 9000

\* C11: an emitted CircleWithGrid for a circle (cx, cy, r) has r >= 15, the
\* box x = cx - r, y = cy - r, width = height = 2r (centred on the centre),
\* the polygon of the box's corners in the order top-left, top-right,
\* bottom-right, bottom-left, and area = floor(pi x r^2).
C11_CircleGeometry ==
    [][ Len(out'["cg"]) = Len(out["cg"]) + 1 =>
            LET s == out'["cg"][Len(out'["cg"])]
                c == img.circles[idx["cg"]]
                b == s.boundingBox
                r2 == c.radius * c.radius
            IN  /\ c.radius >= 15
                /\ b.x = c.center_x - c.radius
                /\ b.y = c.center_y - c.radius
                /\ b.width = 2 * c.radius
                /\ b.height = 2 * c.radius
                /\ 2 * b.x + b.width = 2 * c.center_x
                /\ 2 * b.y + b.height = 2 * c.center_y
                /\ b.points = << <<b.x, b.y>>, <<b.x + b.width, b.y>>,
                                 <<b.x + b.width, b.y + b.height>>,
                                 <<b.x, b.y + b.height>> >>
                /\ s.area * 1000000 <= r2 * 3141593
                /\ r2 * 3141592 < (s.area + 1) * 1000000 ]_vars

C11_Witness ==
    /\ pc["cg"] = "done"
    /\ Len(img.circles) = 1
    /\ img.circles[1].radius = 20
    /\ Len(out["cg"]) = 1
    /\ out["cg"][1].boundingBox.x = 10
    /\ out["cg"][1].boundingBox.width = 40
    /\ out["cg"][1].area = 1256

\* the filters of the oval detector other than the aspect ratio, on a contour
C12Others(c) ==
    LET e == 31416 * c.axes[1] * c.axes[2]
    IN  /\ c.area2 >= 2 * 300
        /\ c.npoints >= 5
        /\ c.fit_ok
        /\ e > 0
        /\ 7 * e <= 200000 * c.area2
        /\ 200000 * c.area2 <= 13 * e

C12Major(c) == IF c.axes[1] > c.axes[2] THEN c.axes[1] ELSE c.axes[2]
C12Minor(c) == IF c.axes[1] > c.axes[2] THEN c.axes[2] ELSE c.axes[1]

\* C12 as stated: an Oval is emitted only when 0.3 < minor/major < 0.9; a
\* ratio of exactly 0.3 or 0.9, or a major axis of 0, emits nothing.
C12_AspectOpen ==
    Len(out["ov"]) =
        Cardinality({ i \in 1..Processed("ov") :
            LET c == img.contours[i]
            IN  /\ C12Others(c)
                /\ C12Major(c) > 0
                /\ 3 * C12Major(c) < 10 * C12Minor(c)
                /\ 10 * C12Minor(c) < 9 * C12Major(c) })

\* C12 amended: an Oval is emitted only when 0.3 <= minor/major <= 0.9 (the
\* ratios 0.3 and 0.9 themselves are accepted); a contour with a ratio below
\* 0.3 or above 0.9, or with major axis 0, emits nothing.
C12_AspectClosed ==
    /\ Len(out["ov"]) =
           Cardinality({ i \in 1..Processed("ov") :
               LET c == img.contours[i]
               IN  /\ C12Others(c)
                   /\ C12Major(c) > 0
                   /\ 3 * C12Major(c) <= 10 * C12Minor(c)
                   /\ 10 * C12Minor(c) <= 9 * C12Major(c) })
    /\ \A s \in Range(out["ov"]) : s.type = "Oval"

C12_Witness ==
    /\ pc["ov"] = "done"
    /\ Len(img.contours) = 2
    /\ img.contours[1].axes = <<0, 40>>
    /\ img.contours[2].axes = <<40, 12>>
    /\ Len(out["ov"]) = 1
    /\ out["ov"][1].boundingBox.height = 13

\* 0.7 <= contour_area / (pi x (major/2) x (minor/2)) <= 1.3
C13InRange(c) ==
    LET e == 31416 * c.axes[1] * c.axes[2]
    IN  /\ 7 * e <= 200000 * c.area2
        /\ 200000 * c.area2 <= 13 * e

\* C13: an Oval is emitted only when 0.7 <= fit_quality <= 1.3, fit_quality =
\* contour_area / ellipse_area; a contour whose fitted ellipse has area 0 is
\* rejected and the loop goes on, with no division by zero.
C13_FitQualityRange ==
    [][ (pc["ov"] = "loop" /\ pc'["ov"] # "idle") =>
            LET c == img.contours[idx["ov"]]
                e == c.axes[1] * c.axes[2]
            IN  /\ Len(out'["ov"]) = Len(out["ov"]) + 1 =>
                       (e > 0 /\ C13InRange(c))
                /\ (c.area2 >= 600 /\ c.npoints >= 5 /\ c.fit_ok /\ e > 0
                      /\ ~C13InRange(c)) => out'["ov"] = out["ov"]
                /\ (c.area2 >= 600 /\ c.npoints >= 5 /\ c.fit_ok /\ e > 0
                      /\ C13InRange(c)
                      /\ 3 * C12Major(c) <= 10 * C12Minor(c)
                      /\ 10 * C12Minor(c) <= 9 * C12Major(c)) =>
                       Len(out'["ov"]) = Len(out["ov"]) + 1
                /\ e = 0 =>
                       /\ out'["ov"] = out["ov"]
                       /\ idx'["ov"] = idx["ov"] + 1
                       /\ pc'["ov"] \in {"loop", "done"}
                       /\ hpc' = hpc ]_vars

C13_Witness ==
    /\ pc["ov"] = "done"
    /\ Len(img.contours) = 2
    /\ img.contours[1].axes = <<0, 40>>
    /\ img.contours[2].area2 = 1633
    /\ Len(out["ov"]) = 1
    /\ out["ov"][1].area = 816

\* min(0.95, 0.65 + 0.25 x fit_quality) of a contour
C14Confidence(c) ==
    LET q == (200000 * c.area2) \div ((31416 * c.axes[1] * c.axes[2]) \div 1000)
        f == 6500 + (q * 25) \div 100
    IN  IF f < 9500 THEN f ELSE 9500

\* C14: an emitted Oval has confidence min(0.95, 0.65 + 0.25 x fit_quality),
\* which lies in [0.65, 0.95].
C14_OvalConfidence ==
    [][ Len(out'["ov"]) = Len(out["ov"]) + 1 =>
            LET s == out'["ov"][Len(out'["ov"])]
                c == img.contours[idx["ov"]]
            IN  /\ s.type = "Oval"
                /\ s.confidence = C14Confidence(c)
                /\ 6500 <= s.confidence
                /\ s.confidence <= 9500 ]_vars

C14_Witness ==
    /\ pc["ov"] = "done"
    /\ Len(img.contours) = 1
    /\ img.contours[1].area2 = 880
    /\ Len(out["ov"]) = 1
    /\ out["ov"][1].confidence = 8250

\* what the oval detector accepts, as the spec states it (closed bounds)
C15Accepted(c) ==
    /\ C12Others(c)
    /\ 3 * C12Major(c) <= 10 * C12Minor(c)
    /\ 10 * C12Minor(c) <= 9 * C12Major(c)

\* C15: a contour whose ellipse fit fails emits no symbol, the other contours
\* of the image are still processed and their symbols returned, and the call
\* returns normally: the failure does not reach the caller.
C15_FitFailureSkipped ==
    /\ pc["ov"] # "raised"
    /\ hpc # "failed"
    /\ Len(out["ov"]) =
           Cardinality({ i \in 1..Processed("ov") :
               img.contours[i].fit_ok /\ C15Accepted(img.contours[i]) })
    /\ pc["ov"] = "done" => Processed("ov") = Len(img.contours)
    /\ hpc = "responded" =>
           /\ response.status = 200
           /\ Len(response.symbols) =
                  Len(out["dr"]) + Len(out["cg"]) + Len(out["ov"])

C15_Witness ==
    /\ hpc = "responded"
    /\ response.status = 200
    /\ Len(img.contours) = 2
    /\ ~img.contours[1].fit_ok
    /\ img.contours[1].area2 >= 600
    /\ img.contours[1].npoints >= 5
    /\ img.contours[2] = OvalContour
    /\ Len(out["ov"]) = 1
    /\ response.symbols[Len(response.symbols)].type = "Oval"

\* C16: the total count equals the length of the returned list, which is the
\* sum of the lengths of the three detectors' result lists.
C16_CountIsLength ==
    hpc = "responded" =>
        /\ response.count = Len(response.symbols)
        /\ response.count = Len(DetectorResult("dr")) + Len(DetectorResult("cg"))
                               + Len(DetectorResult("ov"))
        /\ response.count = Len(out["dr"]) + Len(out["cg"]) + Len(out["ov"])

C16_Witness ==
    /\ hpc = "responded"
    /\ Len(out["dr"]) = 1
    /\ Len(out["cg"]) = 2
    /\ Len(out["ov"]) = 1
    /\ response.count = 4

\* C17 as stated: the output delivered to the caller contains, besides the
\* list and the total count, a count for each of the three types.
C17_PerTypeDelivered ==
    hpc = "responded" =>
        \A d \in Detectors :
            \E f \in DOMAIN response \ {"status", "symbols", "count"} :
                response[f] = Len(out[d])

\* C17 amended: the output delivered to the caller contains the ordered list
\* and the total count only; the count of each of the three types is written
\* to the log.
C17_PerTypeLogged ==
    hpc = "responded" =>
        /\ DOMAIN response = {"status", "symbols", "count"}
        /\ response.symbols = out["dr"] \o out["cg"] \o out["ov"]
        /\ response.count = Len(response.symbols)
        /\ logged.level = "info"
        /\ logged.total = response.count
        /\ logged.rectangles = Len(DetectorResult("dr"))
        /\ logged.circles = Len(DetectorResult("cg"))
        /\ logged.ovals = Len(DetectorResult("ov"))

C17_Witness ==
    /\ hpc = "responded"
    /\ DOMAIN response = {"status", "symbols", "count"}
    /\ logged.rectangles = 1
    /\ logged.circles = 2
    /\ logged.ovals = 0
    /\ logged.total = 3

\* an image on which the primitives find nothing
C18Blank ==
    /\ img.decodes
    /\ img.tree = <<>>
    /\ img.circles = <<>>
    /\ img.contours = <<>>

\* C18: a detector whose input yields no candidates returns an empty list
\* without raising; on a blank image the aggregator returns an empty list
\* with total count 0.
C18_BlankImage ==
    /\ \A d \in Detectors :
           (img.decodes /\ Len(Candidates(d)) = 0) =>
               /\ pc[d] \in {"idle", "done"}
               /\ out[d] = <<>>
    /\ C18Blank =>
           /\ hpc # "failed"
           /\ hpc = "responded" =>
                  response = [status |-> 200, symbols |-> <<>>, count |-> 0]

C18_Witness ==
    /\ C18Blank
    /\ hpc = "responded"
    /\ \A d \in Detectors : pc[d] = "done"
    /\ response.count = 0

\* C19: when the buffer cannot be decoded, the failure is found before any
\* detector runs, reported to the caller as an error, and no symbol list,
\* partial or not, is returned.
C19_DecodeFailure ==
    ~img.decodes =>
        /\ \A d \in Detectors : pc[d] = "idle" /\ out[d] = <<>>
        /\ detected_symbols = <<>>
        /\ hpc \in {"received", "failed"}
        /\ hpc = "received" => response = NoResponse
        /\ hpc = "failed" =>
               /\ response.status = 500
               /\ "symbols" \notin DOMAIN response

C19_Witness ==
    /\ ~img.decodes
    /\ hpc = "failed"
    /\ response.status = 500
    /\ logged.level = "error"

\* the match conditions of a child j of the quadrilateral i
C20ChildOK(tree, i, j) ==
    LET p == BoundingRect(tree[i].approx)
        q == BoundingRect(tree[j].approx)
    IN  /\ tree[j].area2 > 0
        /\ 10 * tree[j].area2 < 8 * tree[i].area2
        /\ Len(tree[j].approx) = 4
        /\ q[1] > p[1]
        /\ q[2] > p[2]
        /\ q[1] + q[3] < p[1] + p[3]
        /\ q[2] + q[4] < p[2] + p[4]

\* C20: only the first child of a quadrilateral is inspected: a parent whose
\* first child fails a match condition emits nothing, whatever its other
\* children, and a parent emits at most one DoubleRectangle.
C20_FirstChildOnly ==
    [][ (pc["dr"] = "loop" /\ idx'["dr"] = idx["dr"] + 1) =>
            LET t == img.tree
                i == idx["dr"]
            IN  /\ Len(out'["dr"]) <= Len(out["dr"]) + 1
                /\ t[i].child = NoChild => out'["dr"] = out["dr"]
                /\ (t[i].child # NoChild /\ ~C20ChildOK(t, i, t[i].child)) =>
                       out'["dr"] = out["dr"] ]_vars

C20_Witness ==
    /\ pc["dr"] = "done"
    /\ out["dr"] = <<>>
    /\ Len(img.tree) = 3
    /\ img.tree[1].area2 >= 1000
    /\ Len(img.tree[1].approx) = 4
    /\ img.tree[1].child = 2
    /\ ~C20ChildOK(img.tree, 1, 2)
    /\ img.tree[3].parent = 1
    /\ C20ChildOK(img.tree, 1, 3)

\* the region of interest of the claim, in exact integers: <<x1, y1, x2, y2>>
C21Roi(c) ==
    LET pad == c.radius \div 5
        lo(v) == IF v < 0 THEN 0 ELSE v
        hi(v, m) == IF v > m THEN m ELSE v
    IN  << lo(c.center_x - c.radius - pad),
           lo(c.center_y - c.radius - pad),
           hi(c.center_x + c.radius + pad, img.shape[2]),
           hi(c.center_y + c.radius + pad, img.shape[1]) >>

\* C21: for every circle with r >= 15 the region of interest is
\* [cx - r - pad, cx + r + pad] x [cy - r - pad, cy + r + pad], pad =
\* floor(0.2 r), clamped to the image, in exact integers; a circle with
\* cx < r + pad or cy < r + pad is analysed on the clamped region, not dropped.
C21_RoiClamped ==
    [][ (pc["cg"] = "loop" /\ idx'["cg"] = idx["cg"] + 1) =>
            LET c == img.circles[idx["cg"]]
                roi == C21Roi(c)
            IN  c.radius >= 15 =>
                    /\ Roi(promotion, img.shape, c) = roi
                    /\ (roi[3] > roi[1] /\ roi[4] > roi[2] /\ C8Grid(c)) =>
                           Len(out'["cg"]) = Len(out["cg"]) + 1 ]_vars

\* C22: an Oval is emitted only for a contour with area >= 300 (exactly 300
\* is kept) and at least 5 points; its area field is the contour area
\* truncated, and its box and 4-point polygon are the contour's bounding
\* rectangle.
C22_OvalFromContour ==
    [][ (pc["ov"] = "loop" /\ idx'["ov"] = idx["ov"] + 1) =>
            LET c == img.contours[idx["ov"]]
                s == out'["ov"][Len(out'["ov"])]
                b == s.boundingBox
            IN  /\ Len(out'["ov"]) = Len(out["ov"]) + 1 =>
                       /\ c.area2 >= 600
                       /\ c.npoints >= 5
                       /\ 2 * s.area <= c.area2
                       /\ c.area2 < 2 * (s.area + 1)
                       /\ <<b.x, b.y, b.width, b.height>> = c.rect
                       /\ b.points =
                              << <<c.rect[1], c.rect[2]>>,
                                 <<c.rect[1] + c.rect[3], c.rect[2]>>,
                                 <<c.rect[1] + c.rect[3], c.rect[2] + c.rect[4]>>,
                                 <<c.rect[1], c.rect[2] + c.rect[4]>> >>
                /\ (c.area2 = 600 /\ C15Accepted(c)) =>
                       Len(out'["ov"]) = Len(out["ov"]) + 1 ]_vars

C22_Witness ==
    /\ pc["ov"] = "done"
    /\ Len(img.contours) = 1
    /\ img.contours[1].area2 = 600
    /\ img.contours[1].axes = <<30, 15>>
    /\ Len(out["ov"]) = 1
    /\ out["ov"][1].area = 300
    /\ out["ov"][1].boundingBox.width = 31

\* C23: every emitted CircleWithGrid has the confidence 0.6 + 0.3 = 0.9: at
\* the point of emission h x v >= 4 and grid_quality is 1.0, lines beyond
\* 2 x 2 change nothing, and the cap of 0.95 is not the binding bound.
C23_ConstantConfidence ==
    [][ Len(out'["cg"]) = Len(out["cg"]) + 1 =>
            LET c == img.circles[idx["cg"]]
                h == Len(SelectSeq(c.lines, C9Horizontal))
                v == Len(SelectSeq(c.lines, C9Vertical))
            IN  /\ h * v >= 4
                /\ \A s \in Range(out'["cg"]) :
                       /\ s.confidence = 6000 + 3000
                       /\ s.confidence < 9500 ]_vars

C23_Witness ==
    /\ pc["cg"] = "done"
    /\ Len(img.circles) = 2
    /\ Len(SelectSeq(img.circles[1].lines, C9Horizontal)) = 3
    /\ Len(SelectSeq(img.circles[1].lines, C9Vertical)) = 2
    /\ Len(SelectSeq(img.circles[2].lines, C9Horizontal)) = 2
    /\ Len(SelectSeq(img.circles[2].lines, C9Vertical)) = 2
    /\ Len(out["cg"]) = 2
    /\ out["cg"][1].confidence = out["cg"][2].confidence

\* C24: a /crop-image request whose box is out of bounds (x < 0, y < 0,
\* x + width > image width or y + height > image height) is answered with
\* status 400 and detail 'Crop parameters out of bounds', and no cropped
\* image is returned.
C24_OutOfBounds400 ==
    (/\ crop.pc \in {"responded", "failed"}
     /\ img.decodes
     /\ \/ crop.x < 0
        \/ crop.y < 0
        \/ crop.x + crop.width > img.shape[2]
        \/ crop.y + crop.height > img.shape[1]) =>
        /\ crop.response.status = 400
        /\ crop.response.detail = "Crop parameters out of bounds"
        /\ "croppedImage" \notin DOMAIN crop.response

\* C25: the steps occur in the order upload, poll, fetch; the component is
\* fetched only after a poll returned 'done'; a poll returning 'error' ends
\* the request with status 500 and nothing is fetched; a non-200 status of
\* the upload, of a poll or of the fetch ends the request with that same
\* status and no later step is performed.
C25_UploadPollFetch ==
    /\ plan.uploads <= 1
    /\ plan.fetched <= 1
    /\ plan.polls > 0 => plan.uploads = 1
    /\ (plan.pc = "fetch" \/ plan.fetched > 0) =>
           (plan.polls > 0 /\ plan.last = "done")
    /\ plan.last = "error" =>
           (plan.pc = "ended" /\ plan.status = 500 /\ plan.fetched = 0)
    /\ plan.bad # 0 => (plan.pc = "ended" /\ plan.status = plan.bad)
    /\ plan.bad = 401 => (plan.polls = 0 /\ plan.fetched = 0)
    /\ plan.bad = 404 => plan.fetched = 0

C25_Witness ==
    /\ plan.pc = "ended"
    /\ plan.bad = 404
    /\ plan.status = 404
    /\ plan.polls = 2
    /\ plan.last = "pending"
    /\ plan.fetched = 0

\* C26: the polling loop terminates; the timeout is checked before every
\* poll; a 408 is reported only once the elapsed time exceeds the timeout and
\* after at least one poll; an elapsed time over the timeout at the check ends
\* the request with 408; a pending status is followed by a wait of
\* poll_interval before the next check.
C26_PollingTerminates ==
    /\ <>(plan.pc = "ended")
    /\ [](plan.status = 408 =>
              /\ plan.pc = "ended"
              /\ plan.elapsed > plan.timeout
              /\ plan.polls >= 1
              /\ plan.last = "pending")
    /\ [][ plan'.polls = plan.polls + 1 =>
               /\ plan.checks = plan.polls + 1
               /\ plan.elapsed <= plan.timeout ]_vars
    /\ [][ (plan.pc = "check" /\ plan'.elapsed > plan.timeout) =>
               (plan'.pc = "ended" /\ plan'.status = 408) ]_vars
    /\ [][ (plan'.polls = plan.polls + 1 /\ plan'.last = "pending"
              /\ plan'.pc # "ended") => plan'.pc = "sleep" ]_vars
    /\ [][ plan.pc = "sleep" =>
               /\ plan'.pc = "check"
               /\ plan'.polls = plan.polls
               /\ plan'.now >= plan.now + plan.poll_interval ]_vars

C26_Witness ==
    /\ plan.pc = "ended"
    /\ plan.status = 408
    /\ plan.polls >= 2
    /\ plan.last = "pending"
    /\ plan.elapsed > plan.timeout
    /\ plan.bad = 0

====
